---- MODULE Spec2Model ----
(***************************************************************************)
(* A model of moonbot/filesync: the Diff engine (diff.py), the Sync       *)
(* executor (sync.py) and the helpers of utils.py, over a small file      *)
(* tree.  Paths are sequences of names below the source root or the       *)
(* destination root; modification times are in tenths of a second.        *)
(***************************************************************************)
EXTENDS Integers, Sequences, FiniteSets, TLC

\* ------------------------------------------------------------------ bounds
\* calls made on one session in one behaviour
MaxSteps == 3
\* the cancellation predicate answers False at its k-th poll, k <= MaxCancel
MaxCancel == 3

\* ------------------------------------------------------------ the file tree
Names == {"a", "da"}
\* sorted(): "a" < "da"
SortedNames == <<"a", "da">>
\* the characters of a name or of a pattern
Chars(s) ==
    CASE s = "a" -> <<"a">>
      [] s = "d" -> <<"d">>
      [] s = "da" -> <<"d", "a">>
      [] OTHER -> <<>>

Root == <<>>
\* the scratch directory of Diff.__tmpdir, always empty when it is listed
TmpDir == <<"__dirdiff_tmp">>
AllPaths ==
    {<<n>> : n \in Names} \cup {<<"da", n>> : n \in Names}
    \cup {<<"da", "da", "a">>}
\* the paths that may be directories in this tree
DirPaths == {<<"da">>, <<"da", "da">>}

\* modification times, in tenths of a second: 0.4, 0.6 and 1.4
Mtimes == {4, 6, 14}
\* the clock while the program runs, not before any time of the trees: a
\* directory whose entries change gets it
Now == CHOOSE m \in Mtimes : \A n \in Mtimes : n <= m
\* file sizes in bytes: 2 KB for a file below a root, 4 KB for one below da
Sizes == {2048, 4096}

NoNode == [k |-> "none", mt |-> 0, sz |-> 0, ro |-> FALSE]
FileNode(mt, sz) == [k |-> "file", mt |-> mt, sz |-> sz, ro |-> FALSE]
DirNode(mt) == [k |-> "dir", mt |-> mt, sz |-> 0, ro |-> FALSE]

Parent(p) == SubSeq(p, 1, Len(p) - 1)
Base(p) == p[Len(p)]

\* a tree: a child exists only inside a directory
WellFormed(fs) ==
    \A p \in AllPaths :
        /\ fs[p].k = "dir" => p \in DirPaths
        /\ (fs[p].k # "none" /\ Len(p) > 1) => fs[Parent(p)].k = "dir"

Exists(fs, p) == p = Root \/ (p \in AllPaths /\ fs[p].k # "none")

\* utils._isfile (src/utils.py:22) and utils._isdir (src/utils.py:30)
IsFile(fs, p) == p \in AllPaths /\ fs[p].k = "file"
IsDir(fs, p) == p = Root \/ (p \in AllPaths /\ fs[p].k = "dir")

\* os.listdir
ListDir(fs, d) ==
    IF d = TmpDir THEN {}
    ELSE {n \in Names : d \o <<n>> \in AllPaths /\ fs[d \o <<n>>].k # "none"}

VARIABLES
    srcfs, dstfs,   \* the source tree and the destination tree
    diffstngs,      \* Sync.diffstngs
    runstngs,       \* Sync.runstngs
    progressfnc,    \* whether Sync.progressfnc is set
    fault,          \* what the operating system refuses: [k, p]
    heap,           \* the Diff objects of the session, by identity
    origdiff,       \* Sync.origdiff: the identity of a Diff object, 0 for None
    trimdiff,       \* Sync.trimdiff: the identity of a Diff object, 0 for None
    stats,          \* Sync.stats, the six lists
    progressamt,    \* Sync.progressamt
    diffcurrent,    \* Sync.__diffcurrent
    hasrun,         \* Sync.__hasrun
    steps,          \* calls made so far
    last,           \* what the last call was and did
    trimmed,        \* entries that difftrim calls removed since the last diff
    snap,           \* the two trees as the last diff saw them
    idem,           \* 1 after diff, 2 after a clean sync of it, 3 after the next diff
    since,          \* the calls completed since the previous run: "diff", else "trim", else "none"
    prevrun,        \* the previous call of run: whether there was one, whether it raised, what it applied
    roots,          \* which of the two roots the session was given: [src, dst]
    watching,       \* the pair whose WatchFolder.run the program is in, 0 before the first
    wpc,            \* where that WatchFolder.run stands
    initContents,   \* WatchFolder.initContents: the [path, mtime] taken at its start
    tmpdir,         \* whether the scratch directory __dirdiff_tmp exists
    drun            \* two Diff.run in progress side by side: trees, position, result

vars == <<srcfs, dstfs, diffstngs, runstngs, progressfnc, fault, heap,
          origdiff, trimdiff, stats, progressamt, diffcurrent, hasrun, steps,
          last, trimmed, snap, idem, since, prevrun, roots, watching, wpc,
          initContents, tmpdir, drun>>
wvars == <<watching, wpc, initContents>>
pvars == <<tmpdir, drun>>

\* --------------------------------------------------------------- utils.py
\* round(st_mtime, precision) of a time held in tenths of a second
Round(mt, precision) ==
    IF precision >= 1 THEN mt ELSE ((mt + 5) \div 10) * 10

\* the comparison of the raw times, precision ignored
CmpMtimeNoRound(a, b, precision, newerOnly) ==
    IF newerOnly THEN a > b ELSE a # b

\* the comparison with "not older" in place of "newer"
CmpMtimeNotStrict(a, b, precision, newerOnly) ==
    IF newerOnly THEN Round(a, precision) >= Round(b, precision)
    ELSE Round(a, precision) # Round(b, precision)

\* utils._cmp_mtime
CmpMtime(a, b, precision, newerOnly) ==
    IF newerOnly THEN Round(a, precision) > Round(b, precision)
    ELSE Round(a, precision) # Round(b, precision)

\* ---------------------------------------------------------------- diff.py
\* re.search of a literal pattern: a substring search
Search(pat, name) ==
    LET cn == Chars(name)
        cp == Chars(pat)
    IN \E i \in 1..Len(cn) :
          /\ i + Len(cp) - 1 <= Len(cn)
          /\ SubSeq(cn, i, i + Len(cp) - 1) = cp

\* Diff.run.__filter; hasPath is "path was given", sz the size in bytes
Filter(name, hasPath, sz) ==
    LET r1 == IF diffstngs.filters = <<>> THEN TRUE
              ELSE \E i \in DOMAIN diffstngs.filters : Search(diffstngs.filters[i], name)
        r2 == IF \E i \in DOMAIN diffstngs.excludes : Search(diffstngs.excludes[i], name)
              THEN FALSE ELSE r1
    IN IF hasPath /\ diffstngs.sizeLimit > 0 /\ (sz \div 1024) < diffstngs.sizeLimit
       THEN FALSE ELSE r2

\* a mapping of Diff: parent directory -> list of child entries;
\* an entry is a name and the directory mark (the trailing separator)
EmptyMap == [k \in {} |-> <<>>]
Entry(n, d) == [n |-> n, d |-> d]

\* Diff._add: the mark is taken from the tree the path lies in
Add(map, fs, path) ==
    LET key == Parent(path)
        ent == Entry(Base(path), IsDir(fs, path))
        old == IF key \in DOMAIN map THEN map[key] ELSE <<>>
    IN [k \in DOMAIN map \cup {key} |->
           IF k = key THEN Append(old, ent) ELSE map[k]]

\* a merge that keeps the left mapping alone
MapKeepLeft(m1, m2) == m1

\* dict.update
MapUpdate(m1, m2) ==
    [k \in DOMAIN m1 \cup DOMAIN m2 |->
        IF k \in DOMAIN m2 THEN m2[k] ELSE m1[k]]

\* Diff.update_counts: the entries of a mapping
Count(map) ==
    LET RECURSIVE Sum(_)
        Sum(S) == IF S = {} THEN 0
                  ELSE LET k == CHOOSE x \in S : TRUE
                       IN Len(map[k]) + Sum(S \ {k})
    IN Sum(DOMAIN map)

\* filecmp.dircmp: listing a file raises
DirCmp(sfs, dfs, sp, dp) ==
    LET okS == sp = TmpDir \/ IsDir(sfs, sp)
        okD == dp = TmpDir \/ IsDir(dfs, dp)
        L == IF okS THEN ListDir(sfs, sp) ELSE {}
        R == IF okD THEN ListDir(dfs, dp) ELSE {}
    IN [err |-> ~(okS /\ okD),
        left_only |-> L \ R, common |-> L \cap R, right_only |-> R \ L]

NewDiff == [create |-> EmptyMap, update |-> EmptyMap, purge |-> EmptyMap,
            err |-> FALSE]

RECURSIVE DirDiff(_, _, _, _)
RECURSIVE CreateLoop(_, _, _, _, _, _)
RECURSIVE UpdateLoop(_, _, _, _, _, _, _)
RECURSIVE PurgeLoop(_, _, _, _, _, _)

\* Diff.run.processCmp, "create files": the names of left_only in sorted order
CreateLoop(i, acc, L, sfs, dfs, sp) ==
    IF i > Len(SortedNames) THEN acc
    ELSE
      LET x == SortedNames[i]
          srcp == sp \o <<x>>
      IN IF x \notin L THEN CreateLoop(i + 1, acc, L, sfs, dfs, sp)
         ELSE IF IsFile(sfs, srcp) THEN
           CreateLoop(i + 1,
             IF Filter(x, TRUE, sfs[srcp].sz)
             THEN [acc EXCEPT !.create = Add(@, sfs, srcp)] ELSE acc,
             L, sfs, dfs, sp)
         ELSE IF IsDir(sfs, srcp) THEN
           LET a1 == IF diffstngs.includedirs /\ Filter(x, TRUE, sfs[srcp].sz)
                     THEN [acc EXCEPT !.create = Add(@, sfs, srcp)] ELSE acc
               d == DirDiff(sfs, dfs, srcp, TmpDir)
               a2 == IF diffstngs.recursive
                     THEN [a1 EXCEPT !.create = MapUpdate(@, d.create),
                                     !.err = @ \/ d.err]
                     ELSE a1
           IN CreateLoop(i + 1, a2, L, sfs, dfs, sp)
         ELSE CreateLoop(i + 1, acc, L, sfs, dfs, sp)

\* a purge branch that applies no pattern
PurgeUnfiltered(x) == TRUE

\* the filter of the purge branch: __filter(x), no path
PurgeFilter(x) == Filter(x, FALSE, 0)

\* "update files": the names of common in sorted order
UpdateLoop(i, acc, C, sfs, dfs, sp, dp) ==
    IF i > Len(SortedNames) THEN acc
    ELSE
      LET x == SortedNames[i]
          srcp == sp \o <<x>>
          dstp == dp \o <<x>>
      IN IF x \notin C THEN UpdateLoop(i + 1, acc, C, sfs, dfs, sp, dp)
         ELSE IF IsFile(sfs, srcp) THEN
           LET a1 == IF CmpMtime(sfs[srcp].mt, dfs[dstp].mt, diffstngs.timeprecision, diffstngs.newer)
                        /\ Filter(x, TRUE, sfs[srcp].sz)
                     THEN [acc EXCEPT !.update = Add(@, sfs, srcp)] ELSE acc
               a2 == IF diffstngs.forceUpdate
                     THEN [a1 EXCEPT !.update = Add(@, sfs, srcp)] ELSE a1
           IN UpdateLoop(i + 1, a2, C, sfs, dfs, sp, dp)
         ELSE IF IsDir(sfs, srcp) /\ diffstngs.recursive THEN
           LET d == DirDiff(sfs, dfs, srcp, dstp)
           IN UpdateLoop(i + 1,
                [create |-> MapUpdate(acc.create, d.create),
                 update |-> MapUpdate(acc.update, d.update),
                 purge |-> MapUpdate(acc.purge, d.purge),
                 err |-> acc.err \/ d.err],
                C, sfs, dfs, sp, dp)
         ELSE UpdateLoop(i + 1, acc, C, sfs, dfs, sp, dp)

\* "purge files": the names of right_only in sorted order
PurgeLoop(i, acc, R, sfs, dfs, dp) ==
    IF i > Len(SortedNames) THEN acc
    ELSE
      LET x == SortedNames[i]
          dstp == dp \o <<x>>
      IN IF x \notin R THEN PurgeLoop(i + 1, acc, R, sfs, dfs, dp)
         ELSE IF IsFile(dfs, dstp) THEN
           PurgeLoop(i + 1,
             IF PurgeFilter(x)
             THEN [acc EXCEPT !.purge = Add(@, dfs, dstp)] ELSE acc,
             R, sfs, dfs, dp)
         ELSE IF IsDir(dfs, dstp) THEN
           LET a1 == IF PurgeFilter(x)
                     THEN [acc EXCEPT !.purge = Add(@, dfs, dstp)] ELSE acc
               d == DirDiff(sfs, dfs, TmpDir, dstp)
               a2 == IF diffstngs.recursive
                     THEN [a1 EXCEPT !.purge = MapUpdate(@, d.purge),
                                     !.err = @ \/ d.err]
                     ELSE a1
           IN PurgeLoop(i + 1, a2, R, sfs, dfs, dp)
         ELSE PurgeLoop(i + 1, acc, R, sfs, dfs, dp)

\* Diff.run.processCmp
ProcessCmp(c, sfs, dfs, sp, dp) ==
    IF c.err THEN [NewDiff EXCEPT !.err = TRUE]
    ELSE
      LET d1 == CreateLoop(1, NewDiff, c.left_only, sfs, dfs, sp)
          d2 == UpdateLoop(1, d1, c.common, sfs, dfs, sp, dp)
      IN PurgeLoop(1, d2, c.right_only, sfs, dfs, dp)

\* Diff.run.__dirdiff
DirDiff(sfs, dfs, sp, dp) == ProcessCmp(DirCmp(sfs, dfs, sp, dp), sfs, dfs, sp, dp)

\* a Diff object; valid is FALSE for None
DiffObj(c, u, p) ==
    [valid |-> TRUE, create |-> c, update |-> u, purge |-> p,
     createcount |-> Count(c), updatecount |-> Count(u),
     purgecount |-> Count(p),
     totalcount |-> Count(c) + Count(u) + Count(p)]
NoneDiff ==
    [valid |-> FALSE, create |-> EmptyMap, update |-> EmptyMap,
     purge |-> EmptyMap, createcount |-> 0, updatecount |-> 0,
     purgecount |-> 0, totalcount |-> 0]

\* the objects Sync.origdiff and Sync.trimdiff refer to
Deref(ref) == IF ref = 0 THEN NoneDiff ELSE heap[ref]
OrigDiff == Deref(origdiff)
TrimDiff == Deref(trimdiff)

\* a copy that shares the object: trimdiff = origdiff
DiffCopyShared(ref) == ref

\* Diff.copy: a new object, here the one of identity 2, with deep-copied
\* contents
DiffCopy(ref) == 2

\* Diff.run on the two roots, then update_counts; err when the comparison raised
DiffRun(sfs, dfs) ==
    LET d == DirDiff(sfs, dfs, Root, Root)
    IN [err |-> d.err, diff |-> DiffObj(d.create, d.update, d.purge)]

\* the two roots given, and Sync.__validate
BothRoots == [src |-> TRUE, dst |-> TRUE]
Validate == roots.src /\ roots.dst

\* Diff.__init__: dst is normalised whenever src is given, and the
\* comparison runs when both roots are set
DiffInit(sfs, dfs, hasSrc, hasDst) ==
    IF hasSrc /\ ~hasDst THEN [err |-> TRUE, diff |-> NoneDiff]
    ELSE IF ~hasSrc THEN [err |-> FALSE, diff |-> DiffObj(EmptyMap, EmptyMap, EmptyMap)]
    ELSE DiffRun(sfs, dfs)

\* the entries of a mapping as full paths with their mark
Entries(map) ==
    UNION {{[p |-> k \o <<map[k][i].n>>, d |-> map[k][i].d] :
               i \in 1..Len(map[k])} : k \in DOMAIN map}
PathsOf(map) == {e.p : e \in Entries(map)}

\* ---------------------------------------------------------------- sync.py
EmptyStats ==
    [creates |-> <<>>, createfails |-> <<>>, updates |-> <<>>,
     updatefails |-> <<>>, purges |-> <<>>, purgefails |-> <<>>]
PassList(ph) ==
    CASE ph = "create" -> "creates" [] ph = "update" -> "updates"
      [] OTHER -> "purges"
FailList(ph) ==
    CASE ph = "create" -> "createfails" [] ph = "update" -> "updatefails"
      [] OTHER -> "purgefails"

NoFault == [k |-> "none", p |-> Root]
Denied(p) == fault.k = "deny" /\ fault.p = p
StatFails(p) == fault.k = "stat" /\ fault.p = p
ChmodFails(p) == fault.k = "nochmod" /\ fault.p = p

\* the run in progress: the destination tree, the lists, the progress
\* count and calls, the polls made, how it goes on ("run", "cancel",
\* "raise"), the items handed to an operation, and the items dropped
\* without a record
RunState(dfs, amt) ==
    [dst |-> dfs, st |-> EmptyStats, amt |-> amt, plog |-> <<>>,
     polls |-> 0, out |-> "run", applied |-> <<>>, silent |-> <<>>]

Pass(rs, ph, x) == [rs EXCEPT !.st[PassList(ph)] = Append(@, x)]
Fail(rs, ph, x) == [rs EXCEPT !.st[FailList(ph)] = Append(@, x)]

\* a directory whose entries change takes the time of the clock
TouchParent(fs, p) ==
    IF Len(p) > 1 THEN [fs EXCEPT ![Parent(p)].mt = Now] ELSE fs

\* Sync.__getProgPercent and the callback; T is origdiff.totalcount
Progress(rs, T) ==
    IF ~progressfnc THEN rs
    ELSE IF T = 0 THEN [rs EXCEPT !.amt = @ + 1, !.out = "raise"]
    ELSE [rs EXCEPT !.amt = @ + 1,
                    !.plog = Append(@, [k |-> rs.amt + 1, t |-> T])]

\* os.makedirs: the missing directories above dir, then dir itself; [ok, fs]
RECURSIVE OsMakedirs(_, _)
OsMakedirs(fs, dir) ==
    LET up == IF IsDir(fs, Parent(dir)) THEN [ok |-> TRUE, fs |-> fs]
              ELSE OsMakedirs(fs, Parent(dir))
    IN IF ~up.ok \/ Exists(up.fs, dir) \/ Denied(dir) \/ dir \notin DirPaths
       THEN [ok |-> FALSE, fs |-> up.fs]
       ELSE [ok |-> TRUE,
             fs |-> TouchParent([up.fs EXCEPT ![dir] = DirNode(Now)], dir)]

\* Sync.__makedirs: os.makedirs, whatever dry_run is
Makedirs(rs, dir, dry) ==
    LET m == OsMakedirs(rs.dst, dir)
    IN IF m.ok THEN Pass([rs EXCEPT !.dst = m.fs], "create", [p |-> dir, d |-> FALSE])
       ELSE Fail([rs EXCEPT !.dst = m.fs], "create", [p |-> dir, d |-> FALSE])

\* Sync.__copydir: os.mkdir inside the try, shutil.copystat outside it
Copydir(rs0, srcp, dstp, x, ph, dry, T) ==
    LET rs == Progress(rs0, T)
        mkOK == dry \/ (~Exists(rs.dst, dstp) /\ IsDir(rs.dst, Parent(dstp))
                        /\ dstp \in DirPaths /\ ~Denied(dstp))
        fs1 == IF dry THEN rs.dst
               ELSE TouchParent([rs.dst EXCEPT ![dstp] = DirNode(Now)], dstp)
        ro == Exists(fs1, dstp) /\ runstngs.forceOwnership /\ fs1[dstp].ro
        fs2 == IF ro THEN [fs1 EXCEPT ![dstp].ro = FALSE] ELSE fs1
    IN IF rs.out # "run" THEN rs
       ELSE IF ~mkOK THEN Fail(rs, ph, x)
       ELSE IF ro /\ ChmodFails(dstp)
            THEN [rs EXCEPT !.dst = fs1, !.silent = Append(@, x)]
       ELSE IF ~Exists(fs2, dstp) \/ ~Exists(srcfs, srcp) \/ StatFails(dstp)
            THEN [rs EXCEPT !.dst = fs2, !.out = "raise"]
       ELSE Pass([rs EXCEPT !.dst = [fs2 EXCEPT ![dstp].mt = srcfs[srcp].mt]],
                 ph, x)

\* shutil.copy2(src, dst): into dst when dst is a directory; [ok, fs]
Copy2(fs, srcp, dstp) ==
    LET target == IF IsDir(fs, dstp) THEN dstp \o <<Base(srcp)>> ELSE dstp
        ok == /\ IsFile(srcfs, srcp)
              /\ target \in AllPaths
              /\ ~IsDir(fs, target)
              /\ IsDir(fs, Parent(target))
              /\ ~Denied(target)
              /\ ~(Exists(fs, target) /\ fs[target].ro)
        new == [fs EXCEPT ![target] = FileNode(srcfs[srcp].mt, srcfs[srcp].sz)]
    IN [ok |-> ok,
        fs |-> IF ~ok THEN fs
               ELSE IF Exists(fs, target) THEN new ELSE TouchParent(new, target)]

\* Sync.__copy
Copy(rs0, srcp, dstp, x, ph, dry, T) ==
    LET rs == Progress(rs0, T)
        ro == Exists(rs.dst, dstp) /\ runstngs.forceOwnership /\ rs.dst[dstp].ro
        fs1 == IF ro THEN [rs.dst EXCEPT ![dstp].ro = FALSE] ELSE rs.dst
        c == Copy2(fs1, srcp, dstp)
    IN IF rs.out # "run" THEN rs
       ELSE IF dry THEN Pass(rs, ph, x)
       ELSE IF ro /\ ChmodFails(dstp) THEN [rs EXCEPT !.silent = Append(@, x)]
       ELSE IF ~c.ok THEN Fail([rs EXCEPT !.dst = fs1], ph, x)
       ELSE Pass([rs EXCEPT !.dst = c.fs], ph, x)

\* shutil.rmtree
RmTree(fs, dir) ==
    [q \in AllPaths |->
        IF q = dir \/ (Len(q) > Len(dir) /\ SubSeq(q, 1, Len(dir)) = dir)
        THEN NoNode ELSE fs[q]]

\* Sync.__rmdir
Rmdir(rs0, dstp, x, dry, T) ==
    LET rs == Progress(rs0, T)
    IN IF rs.out # "run" \/ ~IsDir(rs.dst, dstp) THEN rs
       ELSE IF dry THEN Pass(rs, "purge", x)
       ELSE IF Denied(dstp) THEN Fail(rs, "purge", x)
       ELSE Pass([rs EXCEPT !.dst = TouchParent(RmTree(rs.dst, dstp), dstp)],
                 "purge", x)

\* Sync.__remove
Remove(rs0, dstp, x, dry, T) ==
    LET rs == Progress(rs0, T)
    IN IF rs.out # "run" \/ ~IsFile(rs.dst, dstp) THEN rs
       ELSE IF dry THEN Pass(rs, "purge", x)
       ELSE IF Denied(dstp) THEN Fail(rs, "purge", x)
       ELSE Pass([rs EXCEPT !.dst = TouchParent(
                                [rs.dst EXCEPT ![dstp] = NoNode], dstp)],
                 "purge", x)

\* sorted(diff.create.items()): the parent directories in sorted order
SortedKeys == <<Root, <<"da">>, <<"da", "da">>>>
KeysOf(map) == SelectSeq(SortedKeys, LAMBDA k : k \in DOMAIN map)

\* a group whose poll comes after its children
GroupPollLast(ph, map, k) ==
    [i \in 1..Len(map[k]) |->
        [t |-> "item", ph |-> ph, key |-> k, e |-> map[k][i]]]
    \o <<[t |-> "group", ph |-> ph, key |-> k, e |-> Entry("", FALSE)]>>

\* one parent-directory group: the poll, then its children in stored order
Group(ph, map, k) ==
    <<[t |-> "group", ph |-> ph, key |-> k, e |-> Entry("", FALSE)]>> \o
    [i \in 1..Len(map[k]) |->
        [t |-> "item", ph |-> ph, key |-> k, e |-> map[k][i]]]

RECURSIVE Flat(_, _, _)
Flat(ph, map, ks) ==
    IF ks = <<>> THEN <<>>
    ELSE Group(ph, map, Head(ks)) \o Flat(ph, map, Tail(ks))

\* the loops of Sync.runwithdiff in order, for the enabled phases
Work(d, rst) ==
    (IF rst.create THEN Flat("create", d.create, KeysOf(d.create)) ELSE <<>>)
    \o (IF rst.update THEN Flat("update", d.update, KeysOf(d.update)) ELSE <<>>)
    \o (IF rst.purge THEN Flat("purge", d.purge, KeysOf(d.purge)) ELSE <<>>)

\* one turn of a loop of Sync.runwithdiff.  cancelAt = 0: no progresscheck;
\* cancelAt = k > 0: progresscheck answers False at its k-th call
Step(rs, w, dry, cancelAt, T) ==
    IF rs.out # "run" THEN rs
    ELSE IF w.t = "group" THEN
      LET rs1 == IF cancelAt > 0 THEN [rs EXCEPT !.polls = @ + 1] ELSE rs
      IN IF cancelAt > 0 /\ rs1.polls = cancelAt
         THEN [rs1 EXCEPT !.out = "cancel"]
         ELSE IF w.ph = "create" /\ ~IsDir(rs1.dst, w.key)
              THEN Makedirs(rs1, w.key, dry)
              ELSE rs1
    ELSE
      LET p == w.key \o <<w.e.n>>
          x == [p |-> p, d |-> w.e.d]
          rs1 == [rs EXCEPT !.applied = Append(@, [ph |-> w.ph, p |-> p])]
      IN IF w.ph = "create" THEN
           IF IsDir(srcfs, p) THEN Copydir(rs1, p, p, x, "create", dry, T)
           ELSE IF IsFile(srcfs, p) THEN Copy(rs1, p, p, x, "create", dry, T)
           ELSE [rs1 EXCEPT !.silent = Append(@, x)]
         ELSE IF w.ph = "update" THEN Copy(rs1, p, p, x, "update", dry, T)
         ELSE IF IsDir(rs1.dst, p) THEN Rmdir(rs1, p, x, dry, T)
         ELSE IF IsFile(rs1.dst, p) THEN Remove(rs1, p, x, dry, T)
         ELSE rs1

RECURSIVE RunLoop(_, _, _, _, _, _)
RunLoop(rs, W, i, dry, cancelAt, T) ==
    IF i > Len(W) THEN rs
    ELSE RunLoop(Step(rs, W[i], dry, cancelAt, T), W, i + 1, dry, cancelAt, T)

\* Sync.runwithdiff
RunWithDiff(d, rst, dry, cancelAt) ==
    RunLoop(RunState(dstfs, progressamt), Work(d, rst), 1, dry, cancelAt,
            OrigDiff.totalcount)

\* Diff.clearFiles: the mappings alone
ClearFiles(d) ==
    [d EXCEPT !.create = EmptyMap, !.update = EmptyMap, !.purge = EmptyMap]

CountField(op) ==
    CASE op = "create" -> "createcount" [] op = "update" -> "updatecount"
      [] OTHER -> "purgecount"

\* Diff._remove, with update_counts(ops=[op]); fs is the tree the path lies in
RemoveEntry(d, op, fs, path) ==
    IF ~Exists(fs, path) THEN d
    ELSE
      LET key == Parent(path)
          base == Entry(Base(path), IsDir(fs, path))
          map == d[op]
          has == key \in DOMAIN map /\ \E i \in 1..Len(map[key]) : map[key][i] = base
          at == CHOOSE i \in 1..Len(map[key]) :
                   /\ map[key][i] = base
                   /\ \A j \in 1..(i - 1) : map[key][j] # base
          lst == SubSeq(map[key], 1, at - 1) \o SubSeq(map[key], at + 1, Len(map[key]))
          map2 == IF ~has THEN map
                  ELSE IF lst = <<>> THEN [k \in DOMAIN map \ {key} |-> map[k]]
                  ELSE [map EXCEPT ![key] = lst]
          d2 == [d EXCEPT ![op] = map2, ![CountField(op)] = Count(map2)]
      IN [d2 EXCEPT !.totalcount = d2.createcount + d2.updatecount + d2.purgecount]

Ops == {"create", "update", "purge"}
TreeOf(op) == IF op = "purge" THEN dstfs ELSE srcfs

\* the record of a call: which one, whether it raised, and for a run its
\* arguments, how it ended, the tree before it and the change set it applied
Call(op) ==
    [op |-> op, raised |-> FALSE, dry |-> FALSE, cancelAt |-> 0,
     out |-> "none", polls |-> 0, plog |-> <<>>, applied |-> <<>>,
     silent |-> <<>>, predst |-> dstfs, used |-> NoneDiff,
     warned |-> FALSE, same |-> FALSE, arg |-> <<>>,
     prev |-> [since |-> since, called |-> prevrun.called,
               raised |-> prevrun.raised]]

\* ---------------------------------------------------------------- actions
\* one more call made from outside a watch
Tick ==
    /\ steps < MaxSteps
    /\ steps' = steps + 1
    /\ UNCHANGED wvars
    /\ UNCHANGED pvars

\* Sync.diff
DiffCall ==
    /\ LET r == DiffInit(srcfs, dstfs, roots.src, roots.dst)
       IN IF ~Validate
          THEN /\ last' = Call("diff")
               /\ idem' = 0
               /\ UNCHANGED <<heap, origdiff, trimdiff, diffcurrent, trimmed,
                              snap, since>>
          ELSE IF r.err
          THEN /\ last' = [Call("diff") EXCEPT !.raised = TRUE]
               /\ idem' = 0
               /\ UNCHANGED <<heap, origdiff, trimdiff, diffcurrent, trimmed,
                              snap, since>>
          ELSE /\ origdiff' = 1
               /\ since' = "diff"
               /\ trimdiff' = DiffCopy(1)
               /\ heap' = [i \in DOMAIN heap |->
                             IF i = 1 \/ i = DiffCopy(1) THEN r.diff ELSE heap[i]]
               /\ diffcurrent' = TRUE
               /\ trimmed' = {}
               /\ snap' = <<srcfs, dstfs>>
               /\ idem' = IF idem = 2 THEN 3 ELSE 1
               /\ last' = [Call("diff") EXCEPT
                              !.arg = trimmed,
                              !.same = snap = <<srcfs, dstfs>>]
    /\ UNCHANGED <<srcfs, dstfs, diffstngs, runstngs, progressfnc, fault,
                   stats, progressamt, hasrun, prevrun, roots>>

DoDiff == Tick /\ DiffCall

\* Sync.difftrim with one path in one of its three lists
DoDifftrim(op, path) ==
    /\ Tick
    /\ idem' = 0
    /\ IF trimdiff = 0
       THEN /\ last' = [Call("difftrim") EXCEPT !.raised = TRUE]
            /\ UNCHANGED <<heap, trimmed, since>>
       ELSE LET d == RemoveEntry(TrimDiff, op, TreeOf(op), path)
            IN /\ heap' = [heap EXCEPT ![trimdiff] = d]
               /\ trimmed' = IF d[op] = TrimDiff[op] THEN trimmed
                             ELSE trimmed \cup {[op |-> op, p |-> path]}
               /\ since' = IF since = "none" THEN "trim" ELSE since
               /\ last' = [Call("difftrim") EXCEPT !.arg = <<op, path>>,
                                                     !.used = TrimDiff]
    /\ UNCHANGED <<srcfs, dstfs, diffstngs, runstngs, progressfnc, fault,
                   origdiff, trimdiff, stats, progressamt, diffcurrent,
                   hasrun, snap, prevrun, roots>>

\* Sync.run after the run settings are rst (Sync.__run, Sync.runwithdiff)
RunCall(kind, rst, dry, cancelAt) ==
    LET d == IF rst.trimmed THEN TrimDiff ELSE OrigDiff
        rs == IF d.valid THEN RunWithDiff(d, rst, dry, cancelAt)
              ELSE RunState(dstfs, progressamt)
        clean == /\ kind = "sync" /\ ~dry /\ rs.out = "run" /\ rs.silent = <<>>
                 /\ rs.st.createfails = <<>> /\ rs.st.updatefails = <<>>
                 /\ trimmed = {}
    IN /\ runstngs' = rst
       /\ dstfs' = rs.dst
       /\ stats' = rs.st
       /\ progressamt' = rs.amt
       /\ hasrun' = IF rs.out = "raise" THEN hasrun ELSE TRUE
       /\ diffcurrent' = IF rs.out = "raise" THEN diffcurrent ELSE FALSE
       /\ idem' = IF idem = 1 /\ clean THEN 2 ELSE 0
       /\ since' = "none"
       /\ prevrun' = [called |-> TRUE, raised |-> rs.out = "raise", used |-> d]
       /\ last' = [Call(kind) EXCEPT
                      !.raised = rs.out = "raise", !.dry = dry,
                      !.cancelAt = cancelAt,
                      !.out = IF rs.out = "run" THEN "done" ELSE rs.out,
                      !.polls = rs.polls, !.plog = rs.plog,
                      !.applied = rs.applied, !.silent = rs.silent,
                      !.used = d, !.warned = ~diffcurrent,
                      !.same = d = prevrun.used]
       /\ UNCHANGED <<srcfs, diffstngs, progressfnc, fault, heap, origdiff,
                      trimdiff, trimmed, snap, roots>>

RunBody(kind, rst, dry, cancelAt) == Tick /\ RunCall(kind, rst, dry, cancelAt)

\* Sync.sync
DoSync(dry, cancelAt) ==
    RunBody("sync", [runstngs EXCEPT !.create = TRUE, !.update = TRUE],
            dry, cancelAt)

\* Sync.update
DoUpdate(dry, cancelAt) ==
    RunBody("update", [runstngs EXCEPT !.create = FALSE, !.update = TRUE],
            dry, cancelAt)

\* Sync.run
DoRun(dry, cancelAt) == RunBody("run", runstngs, dry, cancelAt)

\* a source file disappears between two calls
Vanish(p) ==
    /\ Tick
    /\ IsFile(srcfs, p)
    /\ srcfs' = [srcfs EXCEPT ![p] = NoNode]
    /\ idem' = 0
    /\ last' = [Call("vanish") EXCEPT !.arg = p]
    /\ UNCHANGED <<dstfs, diffstngs, runstngs, progressfnc, fault, heap,
                   origdiff, trimdiff, stats, progressamt, diffcurrent, hasrun,
                   trimmed, snap, since, prevrun, roots>>

\* what the calls on the Diff object of origdiff leave alone
ApiFrame ==
    UNCHANGED <<srcfs, dstfs, diffstngs, runstngs, progressfnc, fault,
                origdiff, trimdiff, stats, progressamt, diffcurrent, hasrun,
                trimmed, snap, since, prevrun, roots>>

\* Diff.add_create, Diff.add_update, Diff.add_purge on the object of origdiff
AddEntry(op, path) ==
    /\ Tick
    /\ origdiff # 0
    /\ idem' = 0
    /\ heap' = [heap EXCEPT ![origdiff][op] = Add(@, TreeOf(op), path)]
    /\ last' = [Call("add") EXCEPT !.arg = <<op, path>>]
    /\ ApiFrame

\* Diff.remove_create, Diff.remove_update, Diff.remove_purge on that object
RemoveApi(op, path) ==
    /\ Tick
    /\ origdiff # 0
    /\ idem' = 0
    /\ heap' = [heap EXCEPT ![origdiff] = RemoveEntry(@, op, TreeOf(op), path)]
    /\ last' = [Call("remove") EXCEPT !.arg = <<op, path>>]
    /\ ApiFrame

\* Diff.clearFiles on that object
DoClearFiles ==
    /\ Tick
    /\ origdiff # 0
    /\ idem' = 0
    /\ heap' = [heap EXCEPT ![origdiff] = ClearFiles(@)]
    /\ last' = Call("clearFiles")
    /\ ApiFrame

\* Diff.run on that object
DoDiffRun ==
    /\ Tick
    /\ origdiff # 0
    /\ idem' = 0
    /\ LET r == DiffRun(srcfs, dstfs)
       IN IF r.err
          THEN /\ last' = [Call("diffrun") EXCEPT !.raised = TRUE]
               /\ UNCHANGED heap
          ELSE /\ heap' = [heap EXCEPT ![origdiff] = r.diff]
               /\ last' = Call("diffrun")
    /\ ApiFrame

\* Diff(src, dst) built directly from the roots of the session
DoDiffNew ==
    /\ Tick
    /\ idem' = 0
    /\ LET r == DiffInit(srcfs, dstfs, roots.src, roots.dst)
       IN last' = [Call("newdiff") EXCEPT !.raised = r.err, !.used = r.diff]
    /\ UNCHANGED heap
    /\ ApiFrame

\* ---------------------------------------------------------------- watch.py
\* the pairs given on the command line
NPairs == 2
Pairs == 1..NPairs

\* WatchFolder.loadInitContents: path and mtime of every create entry; the
\* list is kept as a set, its order changing nothing in what follows
LoadInitContents(d, fs) ==
    {[p |-> e.p, mt |-> fs[e.p].mt] : e \in Entries(d.create)}

\* a variant that passes a path only when its mtime went back
GetInitContentsStrict(fs) ==
    {it.p : it \in {i \in initContents : Exists(fs, i.p) /\ fs[i.p].mt < i.mt}}

\* WatchFolder.getInitContents: the paths whose mtime is not above the one
\* taken at the start; a path that cannot be stat'ed is left out
GetInitContents(fs) ==
    {it.p : it \in {i \in initContents : Exists(fs, i.p) /\ fs[i.p].mt <= i.mt}}

\* the loop of Sync.difftrim over its create list
RECURSIVE TrimAll(_, _)
TrimAll(d, S) ==
    IF S = {} THEN d
    ELSE LET q == CHOOSE x \in S : TRUE
         IN TrimAll(RemoveEntry(d, "create", srcfs, q), S \ {q})

\* the loop of __main__ reaches a pair and calls WatchFolder.run in line:
\* Sync(src, dst), s.diff(), loadInitContents(s); an error ends the program
MainStart ==
    /\ wpc = "main"
    /\ watching < NPairs
    /\ watching' = watching + 1
    /\ DiffCall
    /\ IF ~Validate \/ last'.raised
       THEN wpc' = "dead" /\ UNCHANGED initContents
       ELSE /\ initContents' = LoadInitContents(heap'[origdiff'], srcfs)
            /\ wpc' = "diff"
    /\ UNCHANGED <<steps, tmpdir, drun>>

\* WatchFolder.run, the loop: s.diff()
WatchDiff ==
    /\ wpc = "diff"
    /\ DiffCall
    /\ wpc' = IF last'.raised THEN "dead" ELSE "trim"
    /\ UNCHANGED <<steps, watching, initContents, tmpdir, drun>>

\* WatchFolder.run, the loop: s.difftrim(create=self.getInitContents())
WatchTrim ==
    /\ wpc = "trim"
    /\ LET paths == GetInitContents(srcfs)
           d == TrimAll(TrimDiff, paths)
       IN /\ heap' = [heap EXCEPT ![trimdiff] = d]
          /\ trimmed' = trimmed \cup
                {[op |-> "create", p |-> q] :
                    q \in PathsOf(TrimDiff.create) \ PathsOf(d.create)}
          /\ last' = [Call("difftrim") EXCEPT !.arg = paths, !.used = TrimDiff]
    /\ since' = IF since = "none" THEN "trim" ELSE since
    /\ idem' = 0
    /\ wpc' = "run"
    /\ UNCHANGED <<srcfs, dstfs, diffstngs, runstngs, progressfnc, fault,
                   origdiff, trimdiff, stats, progressamt, diffcurrent,
                   hasrun, snap, prevrun, roots, steps, watching, initContents,
                   tmpdir, drun>>

\* WatchFolder.run, the loop: s.run()
WatchRun ==
    /\ wpc = "run"
    /\ RunCall("run", runstngs, FALSE, 0)
    /\ wpc' = IF last'.raised THEN "dead" ELSE "sleep"
    /\ UNCHANGED <<steps, watching, initContents, tmpdir, drun>>

\* WatchFolder.run, the loop: time.sleep(self.freq), then the next turn
WatchSleep ==
    /\ wpc = "sleep"
    /\ wpc' = "diff"
    /\ UNCHANGED <<srcfs, dstfs, diffstngs, runstngs, progressfnc, fault, heap,
                   origdiff, trimdiff, stats, progressamt, diffcurrent, hasrun,
                   steps, last, trimmed, snap, idem, since, prevrun, roots,
                   watching, initContents, tmpdir, drun>>

\* what the rest of the machine leaves alone while a folder is watched
EnvFrame ==
    UNCHANGED <<dstfs, diffstngs, runstngs, progressfnc, fault, heap,
                origdiff, trimdiff, stats, progressamt, diffcurrent, hasrun,
                steps, trimmed, snap, idem, since, prevrun, roots, watching,
                wpc, initContents, tmpdir, drun>>

\* a path of the source is written to: its mtime advances
Touch(p) ==
    /\ Exists(srcfs, p)
    /\ \E m \in Mtimes :
          /\ m > srcfs[p].mt
          /\ srcfs' = [srcfs EXCEPT ![p].mt = m]
    /\ last' = [Call("touch") EXCEPT !.arg = p]
    /\ EnvFrame

\* a file appears in a directory of the source
Appear(p) ==
    /\ ~Exists(srcfs, p)
    /\ IsDir(srcfs, Parent(p))
    /\ srcfs' = TouchParent([srcfs EXCEPT ![p] = FileNode(Now, 2048)], p)
    /\ last' = [Call("appear") EXCEPT !.arg = p]
    /\ EnvFrame

\* ------------------------------------------------- Diff.run side by side
\* the runs of Diff.run going on at once, each on its own pair of trees
NRuns == 2
Runs == 1..NRuns
IdleRun(sfs, dfs) ==
    [src |-> sfs, dst |-> dfs, pc |-> "idle", todo |-> 0, out |-> NoneDiff]

\* how the comparison reaches a directory: with both sides ("both"), with
\* the scratch directory for the destination ("src") or for the source
\* ("dst"), or not at all ("no")
RECURSIVE Reached(_, _, _)
Reached(sfs, dfs, D) ==
    IF D = Root THEN "both"
    ELSE LET up == Reached(sfs, dfs, Parent(D))
         IN IF ~diffstngs.recursive \/ up = "no" THEN "no"
            ELSE IF up = "both"
                 THEN IF IsDir(sfs, D) /\ ~Exists(dfs, D) THEN "src"
                      ELSE IF IsDir(dfs, D) /\ ~Exists(sfs, D) THEN "dst"
                      ELSE IF IsDir(sfs, D) /\ IsDir(dfs, D) THEN "both"
                      ELSE "no"
            ELSE IF up = "src" THEN (IF IsDir(sfs, D) THEN "src" ELSE "no")
            ELSE (IF IsDir(dfs, D) THEN "dst" ELSE "no")

\* the calls of filecmp.dircmp that list the scratch directory
NullCmps(sfs, dfs) ==
    Cardinality({D \in DirPaths : Reached(sfs, dfs, D) \in {"src", "dst"}})

\* what the session variables do while two Diff.run go side by side
ParFrame ==
    UNCHANGED <<srcfs, dstfs, diffstngs, runstngs, progressfnc, fault, heap,
                origdiff, trimdiff, stats, progressamt, diffcurrent, hasrun,
                steps, last, trimmed, snap, idem, since, prevrun, roots,
                watching, wpc, initContents>>

\* the end of Diff.run: the mappings of the comparison and update_counts
Finished(r) ==
    LET d == DiffRun(r.src, r.dst)
    IN IF d.err THEN [r EXCEPT !.pc = "raised"]
       ELSE [r EXCEPT !.pc = "done", !.out = d.diff]

\* Diff.__tmpdir: os.path.exists(tmpdir)
ParExists(i) ==
    /\ drun[i].pc = "idle"
    /\ drun' = [drun EXCEPT ![i].pc = IF tmpdir THEN "cmp" ELSE "mkdir",
                            ![i].todo = NullCmps(drun[i].src, drun[i].dst)]
    /\ UNCHANGED tmpdir
    /\ ParFrame

\* Diff.__tmpdir: os.mkdir(tmpdir), an error when it exists by now
ParMkdir(i) ==
    /\ drun[i].pc = "mkdir"
    /\ IF tmpdir
       THEN drun' = [drun EXCEPT ![i].pc = "raised"] /\ UNCHANGED tmpdir
       ELSE drun' = [drun EXCEPT ![i].pc = "cmp"] /\ tmpdir' = TRUE
    /\ ParFrame

\* one filecmp.dircmp against the scratch directory: listing it is an
\* error when it is gone
ParCompare(i) ==
    /\ drun[i].pc = "cmp"
    /\ drun[i].todo > 0
    /\ drun' = IF tmpdir THEN [drun EXCEPT ![i].todo = @ - 1]
               ELSE [drun EXCEPT ![i].pc = "raised"]
    /\ UNCHANGED tmpdir
    /\ ParFrame

\* the comparison is over: os.path.isdir(tmp) and os.path.exists(tmp)
ParIsdir(i) ==
    /\ drun[i].pc = "cmp"
    /\ drun[i].todo = 0
    /\ drun' = IF tmpdir THEN [drun EXCEPT ![i].pc = "rmdir"]
               ELSE [drun EXCEPT ![i] = Finished(@)]
    /\ UNCHANGED tmpdir
    /\ ParFrame

\* os.rmdir(tmp), an error when it is gone by now; then the results
ParRmdir(i) ==
    /\ drun[i].pc = "rmdir"
    /\ IF tmpdir
       THEN drun' = [drun EXCEPT ![i] = Finished(@)] /\ tmpdir' = FALSE
       ELSE drun' = [drun EXCEPT ![i].pc = "raised"] /\ UNCHANGED tmpdir
    /\ ParFrame

\* ------------------------------------------------------------ initial states
Tree(a, d, x, y) ==
    [p \in AllPaths |->
        CASE p = <<"a">> -> a [] p = <<"da">> -> d
          [] p = <<"da", "a">> -> x [] p = <<"da", "da">> -> y
          [] OTHER -> NoNode]
Absent == {NoNode}
TopFiles == {FileNode(m, 2048) : m \in Mtimes}
SubFiles == {FileNode(m, 4096) : m \in {6, 14}}
DaFiles == {FileNode(6, 2048)}
\* the trees over a, da and da/a whose directory da has a time of dirTimes
Trees(dirTimes) ==
    {Tree(a, d, NoNode, NoNode) : a \in TopFiles \cup Absent, d \in DaFiles \cup Absent}
    \cup {Tree(a, DirNode(m), x, NoNode) :
             a \in TopFiles \cup Absent, m \in dirTimes, x \in SubFiles \cup Absent}

\* the defaults of Sync.__init__, the three default excludes matching no name here
DefaultDiffStngs ==
    [filters |-> <<>>, excludes |-> <<>>, includedirs |-> TRUE,
     timeprecision |-> 3, recursive |-> TRUE, newer |-> TRUE,
     forceUpdate |-> FALSE, sizeLimit |-> 0]
DefaultRunStngs ==
    [trimmed |-> TRUE, create |-> FALSE, update |-> FALSE, purge |-> FALSE,
     forceOwnership |-> FALSE]
\* the size limits tried, in KB: none, and one between the two file sizes
SizeLimits == {0, 3}
\* the inclusion and exclusion patterns tried: "d" is found in da alone,
\* "a" in both names
PatternPairs ==
    {<<<<>>, <<>>>>, <<<<"d">>, <<>>>>, <<<<>>, <<"d">>>>, <<<<"a">>, <<"d">>>>}
AllDiffStngs ==
    {[filters |-> fe[1], excludes |-> fe[2], includedirs |-> i,
      timeprecision |-> t, recursive |-> r, newer |-> n, forceUpdate |-> f,
      sizeLimit |-> z] :
        fe \in PatternPairs, i \in BOOLEAN, t \in {0, 3}, r \in BOOLEAN,
        n \in BOOLEAN, f \in BOOLEAN, z \in SizeLimits}

InitCore ==
    /\ heap = [i \in 1..2 |-> NoneDiff]
    /\ origdiff = 0
    /\ trimdiff = 0
    /\ snap = <<>>
    /\ stats = EmptyStats
    /\ progressamt = 0
    /\ diffcurrent = FALSE
    /\ hasrun = FALSE
    /\ steps = 0
    /\ trimmed = {}
    /\ idem = 0
    /\ since = "none"
    /\ prevrun = [called |-> FALSE, raised |-> FALSE, used |-> NoneDiff]
    /\ last = Call("init")
    /\ watching = 0
    /\ wpc = "main"
    /\ initContents = <<>>

\* a session, with no Diff.run going on beside it
InitSession ==
    /\ InitCore
    /\ tmpdir = FALSE
    /\ drun = [i \in Runs |-> IdleRun(Tree(NoNode, NoNode, NoNode, NoNode),
                                      Tree(NoNode, NoNode, NoNode, NoNode))]

\* the comparison alone, over every pair of trees and every diff setting
InitDiff ==
    /\ srcfs \in Trees({6})
    /\ dstfs \in Trees({6})
    /\ diffstngs \in AllDiffStngs
    /\ runstngs = DefaultRunStngs
    /\ progressfnc = FALSE
    /\ fault = NoFault
    /\ roots = BothRoots
    /\ InitSession

NextDiff == steps = 0 /\ DoDiff

SpecDiff == InitDiff /\ [][NextDiff]_vars

\* diff and sync with no refusal, over every pair of trees, a file of the
\* source facing a directory of the destination included
IdemDiffStngs ==
    {[filters |-> <<>>, excludes |-> e, includedirs |-> i,
      timeprecision |-> 3, recursive |-> r, newer |-> n, forceUpdate |-> f,
      sizeLimit |-> 0] :
        e \in {<<>>, <<"d">>}, i \in BOOLEAN, r \in BOOLEAN,
        n \in BOOLEAN, f \in BOOLEAN}
InitIdem ==
    /\ srcfs \in Trees({6})
    /\ dstfs \in Trees({4})
    /\ diffstngs \in IdemDiffStngs
    /\ runstngs = DefaultRunStngs
    /\ progressfnc = FALSE
    /\ fault = NoFault
    /\ roots = BothRoots
    /\ InitSession

NextIdem == DoDiff \/ DoSync(FALSE, 0)

SpecIdem == InitIdem /\ [][NextIdem]_vars

\* the trees built from the given nodes for a, da, da/a and da/da
Forest(A, D, X, Y) ==
    {t \in {Tree(a, d, x, y) : a \in A, d \in D, x \in X, y \in Y} :
        WellFormed(t)}
F(mt) == FileNode(mt, 2048)
ReadOnly(n) == [n EXCEPT !.ro = TRUE]
\* the paths named in calls
CallPaths == {<<"a">>, <<"da">>, <<"da", "a">>}

\* diff and difftrim on trees that never change
InitTrim ==
    /\ srcfs \in Forest({F(14), NoNode}, {DirNode(6), NoNode}, {F(14), NoNode},
                        {NoNode})
    /\ dstfs \in Forest({F(6), NoNode}, {DirNode(6), NoNode}, {F(6), NoNode},
                        {NoNode})
    /\ diffstngs \in {[DefaultDiffStngs EXCEPT !.forceUpdate = f] : f \in BOOLEAN}
    /\ runstngs = DefaultRunStngs
    /\ progressfnc = FALSE
    /\ fault = NoFault
    /\ roots = BothRoots
    /\ InitSession

NextTrim ==
    \/ DoDiff
    \/ \E op \in Ops, p \in CallPaths : DoDifftrim(op, p)

SpecTrim == InitTrim /\ [][NextTrim]_vars

\* what the operating system may refuse in a run
Faults ==
    {NoFault} \cup {[k |-> "deny", p |-> p] : p \in CallPaths}
    \cup {[k |-> "stat", p |-> <<"da">>], [k |-> "nochmod", p |-> <<"a">>]}

\* the arguments of a run: dry or not, and the poll that answers False
RunArgs == {<<FALSE, c>> : c \in 0..MaxCancel} \cup {<<TRUE, 0>>}

\* diff, then the first run of the session, of every kind, with refusals,
\* read-only files, a progress callback, and source files that vanish in
\* between
InitRun ==
    /\ srcfs \in Forest({F(14)}, {DirNode(6), NoNode}, {F(14), NoNode}, {NoNode})
    /\ dstfs \in Forest({F(6), ReadOnly(F(6)), NoNode}, {DirNode(4), NoNode},
                        {F(6), NoNode}, {F(6), NoNode})
    /\ diffstngs \in {[DefaultDiffStngs EXCEPT !.includedirs = i] : i \in BOOLEAN}
    /\ runstngs \in {[DefaultRunStngs EXCEPT !.purge = TRUE, !.forceOwnership = o] :
                        o \in BOOLEAN}
    /\ progressfnc = TRUE
    /\ fault \in Faults
    /\ roots = BothRoots
    /\ InitSession

NextRun ==
    \/ DoDiff
    \/ \E p \in CallPaths : Vanish(p)
    \/ /\ origdiff # 0
       /\ ~hasrun
       /\ \E a \in RunArgs : \/ DoSync(a[1], a[2])
                             \/ DoUpdate(a[1], a[2])
                             \/ DoRun(a[1], a[2])

SpecRun == InitRun /\ [][NextRun]_vars

\* the calls on a Diff object after it was built
InitApi ==
    /\ srcfs \in Forest({F(14), NoNode}, {DirNode(6), NoNode}, {F(14), NoNode},
                        {NoNode})
    /\ dstfs \in Forest({F(6), NoNode}, {DirNode(6), NoNode}, {F(6), NoNode},
                        {NoNode})
    /\ diffstngs = DefaultDiffStngs
    /\ runstngs = DefaultRunStngs
    /\ progressfnc = FALSE
    /\ fault = NoFault
    /\ roots = BothRoots
    /\ InitSession

NextApi ==
    \/ DoDiff
    \/ \E op \in Ops, p \in CallPaths : AddEntry(op, p)
    \/ \E op \in Ops, p \in CallPaths : RemoveApi(op, p)
    \/ DoClearFiles
    \/ DoDiffRun

SpecApi == InitApi /\ [][NextApi]_vars

\* a node with the size os.path.getsize reports for it; the size of a
\* directory depends on the file system
Sized(n, sz) == [n EXCEPT !.sz = sz]
\* the trees down to da/da/a
DeepTree(a, d, x, y, z) ==
    [p \in AllPaths |->
        CASE p = <<"a">> -> a [] p = <<"da">> -> d
          [] p = <<"da", "a">> -> x [] p = <<"da", "da">> -> y
          [] OTHER -> z]
DeepForest(A, D, X, Y, Z) ==
    {t \in {DeepTree(a, d, x, y, z) : a \in A, d \in D, x \in X, y \in Y, z \in Z} :
        WellFormed(t)}
\* the size limits tried against files of 2 KB and 4 KB and directories of
\* 0 KB and 4 KB
TreeSizeLimits == {0, 3, 5}

\* the comparison of deep trees with files and directories of several sizes
InitTree ==
    /\ srcfs \in DeepForest({FileNode(14, 2048), NoNode},
                            {DirNode(6), Sized(DirNode(6), 4096), NoNode},
                            {FileNode(14, 4096), NoNode},
                            {DirNode(6), Sized(DirNode(6), 4096),
                             FileNode(14, 2048), NoNode},
                            {FileNode(14, 4096), NoNode})
    /\ dstfs \in DeepForest({FileNode(6, 2048), NoNode},
                            {DirNode(6), Sized(DirNode(6), 4096), NoNode},
                            {NoNode},
                            {DirNode(6), NoNode},
                            {NoNode})
    /\ diffstngs \in {[DefaultDiffStngs EXCEPT !.includedirs = i, !.recursive = r,
                                               !.sizeLimit = z, !.excludes = e] :
                         i \in BOOLEAN, r \in BOOLEAN, z \in TreeSizeLimits,
                         e \in {<<>>, <<"d">>}}
    /\ runstngs = DefaultRunStngs
    /\ progressfnc = FALSE
    /\ fault = NoFault
    /\ roots = BothRoots
    /\ InitSession

SpecTree == InitTree /\ [][NextDiff]_vars

\* a session of diff, difftrim and runs in any order, a run before the first
\* diff and a run after a run included, with a progress callback or none and
\* a refusal that makes a run raise
InitSess ==
    /\ srcfs \in Forest({F(14)}, {DirNode(6), NoNode}, {F(14), NoNode}, {NoNode})
    /\ dstfs \in Forest({F(6), NoNode}, {NoNode}, {NoNode}, {NoNode})
    /\ diffstngs = DefaultDiffStngs
    /\ runstngs \in {[DefaultRunStngs EXCEPT !.trimmed = t] : t \in BOOLEAN}
    /\ progressfnc \in BOOLEAN
    /\ fault \in {NoFault, [k |-> "stat", p |-> <<"da">>]}
    /\ roots = BothRoots
    /\ InitSession

NextSess ==
    \/ DoDiff
    \/ \E p \in CallPaths : DoDifftrim("create", p)
    \/ \E dry \in BOOLEAN : \/ DoSync(dry, 0)
                            \/ DoUpdate(dry, 0)
                            \/ DoRun(dry, 0)

SpecSess == InitSess /\ [][NextSess]_vars

\* sessions given both roots, one of them or none: diff, the runs, and a
\* Diff built directly
AllRoots == {[src |-> a, dst |-> b] : a, b \in BOOLEAN}
InitConf ==
    /\ srcfs \in Forest({F(14)}, {DirNode(6), NoNode}, {F(14), NoNode}, {NoNode})
    /\ dstfs \in Forest({F(6), NoNode}, {DirNode(6), NoNode}, {NoNode}, {NoNode})
    /\ diffstngs = DefaultDiffStngs
    /\ runstngs \in {[DefaultRunStngs EXCEPT !.purge = u] : u \in BOOLEAN}
    /\ progressfnc \in BOOLEAN
    /\ fault = NoFault
    /\ roots \in AllRoots
    /\ InitSession

NextConf ==
    \/ DoDiff
    \/ DoDiffNew
    \/ \E dry \in BOOLEAN : \/ DoSync(dry, 0)
                            \/ DoUpdate(dry, 0)
                            \/ DoRun(dry, 0)

SpecConf == InitConf /\ [][NextConf]_vars

\* the run of the untrimmed change set with the purge phase enabled, over
\* destinations down to da/da/a, after purge entries were added under a
\* directory to purge
InitPurge ==
    /\ srcfs \in Forest({F(14), NoNode}, {DirNode(6), NoNode}, {NoNode}, {NoNode})
    /\ dstfs \in DeepForest({F(6), NoNode}, {DirNode(4), NoNode}, {F(6), NoNode},
                            {DirNode(4), NoNode}, {F(6), NoNode})
    /\ diffstngs = DefaultDiffStngs
    /\ runstngs = [DefaultRunStngs EXCEPT !.purge = TRUE, !.trimmed = FALSE]
    /\ progressfnc = TRUE
    /\ fault \in {NoFault, [k |-> "deny", p |-> <<"da">>],
                  [k |-> "stat", p |-> <<"da">>]}
    /\ roots = BothRoots
    /\ InitSession

NextPurge ==
    \/ DoDiff
    \/ \E p \in AllPaths : Exists(dstfs, p) /\ AddEntry("purge", p)
    \/ /\ origdiff # 0
       /\ \E dry \in BOOLEAN, c \in {0, 1} : \/ DoSync(dry, c)
                                            \/ DoRun(dry, c)

SpecPurge == InitPurge /\ [][NextPurge]_vars

\* the watch operation on the pairs of the command line, with create
\* enabled or not and the trimmed or the original change set applied, while
\* source paths are written to and files appear
WatchFiles == {<<"a">>, <<"da", "a">>}
InitWatch ==
    /\ srcfs \in Forest({F(6), NoNode}, {DirNode(6), NoNode}, {F(6), NoNode}, {NoNode})
    /\ dstfs \in Forest({F(4), NoNode}, {NoNode}, {NoNode}, {NoNode})
    /\ diffstngs = DefaultDiffStngs
    /\ runstngs \in {[DefaultRunStngs EXCEPT !.create = c, !.update = TRUE,
                                             !.trimmed = t] :
                        c \in BOOLEAN, t \in BOOLEAN}
    /\ progressfnc = TRUE
    /\ fault = NoFault
    /\ roots = BothRoots
    /\ InitSession

\* a step of the one thread of the program: the steps that move wpc, one
\* of them possible until an error ended the program
WatchPcs == {"main", "diff", "trim", "run", "sleep", "dead"}
WatchThread == wpc # "dead" /\ \E pc \in WatchPcs \ {wpc} : wpc' = pc

NextWatch ==
    \/ MainStart
    \/ WatchDiff
    \/ WatchTrim
    \/ WatchRun
    \/ WatchSleep
    \/ \E p \in AllPaths : Touch(p)
    \/ \E p \in WatchFiles : Appear(p)

SpecWatch == InitWatch /\ [][NextWatch]_vars

\* the same program over fewer trees, its one thread taking its next step
\* whenever it has one
InitMain ==
    /\ srcfs \in Forest({F(6)}, {DirNode(6), NoNode}, {NoNode}, {NoNode})
    /\ dstfs \in Forest({NoNode}, {NoNode}, {NoNode}, {NoNode})
    /\ diffstngs = DefaultDiffStngs
    /\ runstngs = [DefaultRunStngs EXCEPT !.create = TRUE, !.update = TRUE]
    /\ progressfnc = TRUE
    /\ fault = NoFault
    /\ roots = BothRoots
    /\ InitSession

SpecMain == InitMain /\ [][NextWatch]_vars /\ WF_wpc(WatchThread)

\* two Diff.run on two pairs of trees, their steps interleaved in any order
ParTrees == Forest({F(6), NoNode}, {DirNode(6), NoNode}, {F(6), NoNode}, {NoNode})
InitPar ==
    /\ srcfs = Tree(NoNode, NoNode, NoNode, NoNode)
    /\ dstfs = Tree(NoNode, NoNode, NoNode, NoNode)
    /\ diffstngs = DefaultDiffStngs
    /\ runstngs = DefaultRunStngs
    /\ progressfnc = FALSE
    /\ fault = NoFault
    /\ roots = BothRoots
    /\ InitCore
    /\ tmpdir = FALSE
    /\ drun \in [Runs -> {IdleRun(a, b) : a \in ParTrees, b \in ParTrees}]

NextPar ==
    \E i \in Runs :
        \/ ParExists(i)
        \/ ParMkdir(i)
        \/ ParCompare(i)
        \/ ParIsdir(i)
        \/ ParRmdir(i)

SpecPar == InitPar /\ [][NextPar]_vars

\* ------------------------------------------------------------------ claims
\* a diff has just returned a change set for the trees as they are
Diffed == last.op = "diff" /\ ~last.raised

\* the comparison lists directory d of the destination: every directory
\* above it is descended into (recursion enabled, and no file of that name
\* on the source side, which is compared as a file)
RECURSIVE DstListed(_)
DstListed(d) ==
    \/ d = Root
    \/ /\ DstListed(Parent(d))
       /\ diffstngs.recursive
       /\ IsDir(dstfs, d)
       /\ ~IsFile(srcfs, d)

DstOnly(p) == Exists(dstfs, p) /\ ~Exists(srcfs, p)
PatternsPass(name) ==
    /\ diffstngs.filters = <<>>
       \/ \E i \in DOMAIN diffstngs.filters : Search(diffstngs.filters[i], name)
    /\ ~\E i \in DOMAIN diffstngs.excludes : Search(diffstngs.excludes[i], name)

C4_DirPurgeUnconditional ==
    Diffed => \A p \in AllPaths :
        (DstOnly(p) /\ IsDir(dstfs, p) /\ DstListed(Parent(p)))
        => p \in PathsOf(OrigDiff.purge)

\* a file of both sides that the comparison reaches
CommonFile(p) ==
    /\ IsFile(srcfs, p) /\ IsFile(dstfs, p)
    /\ Filter(Base(p), TRUE, srcfs[p].sz)
StrictlyNewerOrDiffers(p) ==
    LET a == Round(srcfs[p].mt, diffstngs.timeprecision)
        b == Round(dstfs[p].mt, diffstngs.timeprecision)
    IN IF diffstngs.newer THEN a > b ELSE a # b

C1_SyncIdempotentAlways ==
    idem = 3 => OrigDiff.create = EmptyMap /\ OrigDiff.update = EmptyMap

\* no name is a file under the source and a directory under the destination
NoFileOverDir == \A p \in AllPaths : ~(IsFile(srcfs, p) /\ IsDir(dstfs, p))

\* C1 amended: the same with force-update disabled and no file of the
\* source facing a directory of the same name in the destination
C1_SyncIdempotent ==
    (idem = 3 /\ ~diffstngs.forceUpdate /\ NoFileOverDir)
    => OrigDiff.create = EmptyMap /\ OrigDiff.update = EmptyMap

\* C1 witness: the sync created a directory and a file inside it and
\* updated a file, and the second diff has nothing left to create or update
C1_Witness ==
    /\ idem = 3 /\ ~diffstngs.forceUpdate /\ NoFileOverDir
    /\ Len(stats.creates) >= 2
    /\ Len(stats.updates) >= 1
    /\ OrigDiff.create = EmptyMap /\ OrigDiff.update = EmptyMap

\* how often path p is listed in a mapping
Occ(map, p) ==
    IF Parent(p) \notin DOMAIN map THEN 0
    ELSE Cardinality({i \in 1..Len(map[Parent(p)]) : map[Parent(p)][i].n = Base(p)})

\* a difftrim step: origdiff keeps its mappings and counts, and trimdiff
\* loses one listing of the named path, when that path exists, and no other
TrimStep ==
    (last'.op = "difftrim" /\ ~last'.raised /\ steps' = steps + 1) =>
        LET op == last'.arg[1]
            path == last'.arg[2]
        IN /\ OrigDiff' = OrigDiff
           /\ \A o \in Ops, q \in AllPaths :
                 Occ(TrimDiff'[o], q) =
                    IF o = op /\ q = path /\ Exists(TreeOf(op), path)
                       /\ Occ(TrimDiff[o], q) > 0
                    THEN Occ(TrimDiff[o], q) - 1
                    ELSE Occ(TrimDiff[o], q)

\* a diff of trees that did not change since the diff before it gives back
\* every entry trimmed in between, to origdiff and to trimdiff
Restored ==
    (Diffed /\ last.same) =>
        \A t \in last.arg :
            /\ t.p \in PathsOf(OrigDiff[t.op])
            /\ t.p \in PathsOf(TrimDiff[t.op])

RunOps == {"sync", "update", "run"}
RunDone == last.op \in RunOps
\* the enabled phases of the last run, and the entries it was to apply
Enabled(ph) == runstngs[ph]
Scheduled ==
    UNION {{[ph |-> ph, p |-> e.p] : e \in Entries(last.used[ph])} :
              ph \in {o \in Ops : Enabled(o)}}
Range(seq) == {seq[i] : i \in DOMAIN seq}
Listed(name) == {x.p : x \in Range(stats[name])}

\* C5 as stated: a failing item never makes the run raise or stop; every
\* other scheduled item is still applied and the failed item is in the
\* failure list of its own phase and in no other list
C5_FailureIsolation ==
    (RunDone /\ last.cancelAt = 0) =>
        /\ last.out = "done"
        /\ Scheduled = Range(last.applied)
        /\ \A x \in Range(last.silent) : FALSE

\* C6 as stated: after a run, every entry of the applied change set in an
\* enabled create or update phase has its path in exactly one of the
\* success list and the failure list of that phase
C6_EveryFailureRecorded ==
    (RunDone /\ last.out = "done") =>
        \A ph \in {"create", "update"} : Enabled(ph) =>
            \A e \in Entries(last.used[ph]) :
                (e.p \in Listed(PassList(ph))) # (e.p \in Listed(FailList(ph)))

\* C7 as stated: a dry run raises nothing, leaves the destination tree as
\* it was, and records a success and no failure for every entry
C7_DryRun ==
    (RunDone /\ last.dry) =>
        /\ last.out = "done"
        /\ dstfs = last.predst
        /\ \A ph \in Ops : Enabled(ph) =>
              /\ stats[FailList(ph)] = <<>>
              /\ \A e \in Entries(last.used[ph]) : e.p \in Listed(PassList(ph))

\* the parent-directory groups of a change set in the order of a run
PhGroups(ph, d, rst) ==
    IF rst[ph] THEN [i \in 1..Len(KeysOf(d[ph])) |->
                        [ph |-> ph, key |-> KeysOf(d[ph])[i]]]
    ELSE <<>>
GroupSeq(d, rst) ==
    PhGroups("create", d, rst) \o PhGroups("update", d, rst)
    \o PhGroups("purge", d, rst)
\* the entries of the first n groups, in order
RECURSIVE ItemsUpTo(_, _, _)
ItemsUpTo(G, n, d) ==
    IF n = 0 THEN <<>>
    ELSE ItemsUpTo(G, n - 1, d) \o
         [i \in 1..Len(d[G[n].ph][G[n].key]) |->
             [ph |-> G[n].ph, p |-> G[n].key \o <<d[G[n].ph][G[n].key][i].n>>]]
\* the change set cut down to its first n groups
Prefix(d, G, n) ==
    LET keep(ph) == {G[i].key : i \in {j \in 1..n : G[j].ph = ph}}
        cutmap(ph) == [k \in keep(ph) |-> d[ph][k]]
    IN [d EXCEPT !.create = cutmap("create"), !.update = cutmap("update"),
                 !.purge = cutmap("purge")]

\* C8: the predicate is polled once before each parent-directory group of
\* each enabled phase; when it answers False the run ends without an error,
\* the entries applied are exactly those of the groups started before, each
\* of them processed in full, and the lists and the destination tree are
\* those of a complete run over these groups alone
C8_CooperativeCancel ==
    LET G == GroupSeq(last.used, runstngs)
        n == last.cancelAt - 1
        sofar == RunLoop(RunState(last.predst, 0),
                         Work(Prefix(last.used, G, n), runstngs), 1,
                         last.dry, 0, OrigDiff.totalcount)
    IN /\ (RunDone /\ last.out = "cancel") =>
            /\ ~last.raised
            /\ last.polls = last.cancelAt
            /\ last.cancelAt <= Len(G)
            /\ last.applied = ItemsUpTo(G, n, last.used)
            /\ stats = sofar.st
            /\ dstfs = sofar.dst
       /\ (RunDone /\ last.out = "done" /\ last.cancelAt > 0) =>
            last.polls = Len(G)

\* C8 witness: the predicate answered False at its third poll, after entries
\* of the create phase and of the update phase were applied, with the purge
\* phase still to come
C8_Witness ==
    /\ RunDone /\ last.out = "cancel" /\ last.cancelAt = 3
    /\ \E x \in Range(last.applied) : x.ph = "update"
    /\ \E x \in Range(last.applied) : x.ph = "create"
    /\ stats.updates # <<>>
    /\ last.used.purge # EmptyMap /\ stats.purges = <<>>
    /\ runstngs.purge

CountsConsistent(d) ==
    /\ d.createcount = Count(d.create)
    /\ d.updatecount = Count(d.update)
    /\ d.purgecount = Count(d.purge)
    /\ d.totalcount = d.createcount + d.updatecount + d.purgecount

\* C9 as stated: after any sequence of add_*, remove_*, clearFiles and run
\* on a Diff, each count is the number of child entries of its mapping and
\* totalcount is their sum
C9_CountConsistency == origdiff # 0 => CountsConsistent(OrigDiff)

\* an exclusion pattern is found in the name
Excluded(name) ==
    \E i \in DOMAIN diffstngs.excludes : Search(diffstngs.excludes[i], name)

\* C11 as stated: under every configuration, no file whose name matches an
\* exclusion pattern is in the create mapping or in the update mapping
\* after Diff.run()
C11_ExclusionWins ==
    Diffed => \A p \in AllPaths :
        (IsFile(srcfs, p) /\ Excluded(Base(p)))
        => /\ p \notin PathsOf(OrigDiff.create)
           /\ p \notin PathsOf(OrigDiff.update)

\* the comparison lists directory d of the source: recursion is enabled
\* and every directory above it is one
RECURSIVE SrcListed(_)
SrcListed(d) ==
    \/ d = Root
    \/ /\ SrcListed(Parent(d))
       /\ diffstngs.recursive
       /\ IsDir(srcfs, d)
SrcOnly(p) == Exists(srcfs, p) /\ ~Exists(dstfs, p)
KB(n) == n.sz \div 1024

\* C12 as stated: with a size limit L > 0 a source-only file that passes
\* the patterns is in create if and only if floor(bytes / 1024) >= L, and
\* no directory is left out of create or of purge because of its size
C12_SizeFilter ==
    (Diffed /\ diffstngs.sizeLimit > 0) => \A p \in AllPaths :
        /\ (SrcOnly(p) /\ IsFile(srcfs, p) /\ SrcListed(Parent(p))
            /\ PatternsPass(Base(p)))
           => (p \in PathsOf(OrigDiff.create)
                  <=> KB(srcfs[p]) >= diffstngs.sizeLimit)
        /\ (SrcOnly(p) /\ IsDir(srcfs, p) /\ SrcListed(Parent(p))
            /\ PatternsPass(Base(p)) /\ diffstngs.includedirs)
           => p \in PathsOf(OrigDiff.create)
        /\ (DstOnly(p) /\ IsDir(dstfs, p) /\ DstListed(Parent(p))
            /\ PatternsPass(Base(p)))
           => p \in PathsOf(OrigDiff.purge)

\* the listings of path p in a mapping that carry the directory mark d
OccMarked(map, p, d) ==
    IF Parent(p) \notin DOMAIN map THEN 0
    ELSE Cardinality({i \in 1..Len(map[Parent(p)]) :
                         map[Parent(p)][i] = Entry(Base(p), d)})
Under(p, D) == Len(p) >= Len(D) /\ SubSeq(p, 1, Len(D)) = D
NoFilterAtAll ==
    /\ diffstngs.filters = <<>> /\ diffstngs.excludes = <<>>
    /\ diffstngs.sizeLimit = 0
SourceOnlyDir(D) == IsDir(srcfs, D) /\ D # Root /\ ~Exists(dstfs, D)

C14_SessionStaleness ==
    RunDone =>
        /\ last.warned <=> last.prev.since # "diff"
        /\ origdiff = 0 =>
              /\ last.applied = <<>> /\ stats = EmptyStats
              /\ dstfs = last.predst /\ ~last.raised
        /\ (last.prev.called /\ last.prev.since = "none") => last.same

\* the same with the runs that follow a run that raised left out
C14_AfterCompletedRuns ==
    (RunDone /\ ~last.prev.raised) =>
        /\ last.warned <=> last.prev.since # "diff"
        /\ origdiff = 0 =>
              /\ last.applied = <<>> /\ stats = EmptyStats
              /\ dstfs = last.predst /\ ~last.raised
        /\ (last.prev.called /\ last.prev.since = "none") => last.same

MissingRoot == ~roots.src \/ ~roots.dst
EmptyDiff == DiffObj(EmptyMap, EmptyMap, EmptyMap)

\* C15 as stated: when the source root or the destination root is not
\* given, no call of diff, of a run or of the Diff constructor raises, no
\* change set is produced (origdiff and trimdiff stay unset, a Diff built
\* directly is empty), the six lists stay empty and no file is touched
C15_ConfigErrorsAreNoOps ==
    (MissingRoot /\ last.op # "init") =>
        /\ ~last.raised
        /\ origdiff = 0 /\ trimdiff = 0
        /\ last.op = "newdiff" => last.used = EmptyDiff
        /\ stats = EmptyStats
        /\ dstfs = last.predst

\* the same for the calls on the session alone
C15_SessionNoOps ==
    (MissingRoot /\ last.op \in RunOps \cup {"diff"}) =>
        /\ ~last.raised
        /\ origdiff = 0 /\ trimdiff = 0
        /\ stats = EmptyStats
        /\ dstfs = last.predst

\* the progress calls of the last run number 1, 2, ... and are measured
\* against the total count of the original change set, never above it
ProgressInRange ==
    \A i \in DOMAIN last.plog :
        /\ last.plog[i].k = i
        /\ last.plog[i].t = OrigDiff.totalcount
        /\ 0 < 100 * last.plog[i].k
        /\ 100 * last.plog[i].k <= 100 * last.plog[i].t

\* C18 as stated: in every run of a session, the first and every later one,
\* the k-th progress callback of the run receives 100*k/T, T the total count
\* of the original change set of the last diff, so every percentage lies in
\* (0, 100]
C18_ProgressPercentage ==
    (RunDone /\ progressfnc) => ProgressInRange

\* the same for the first run of a session alone
C18_FirstRun ==
    (RunDone /\ progressfnc /\ ~last.prev.called) => ProgressInRange

\* how often a path is in a list of Sync.stats
OccIn(name, q) == Cardinality({i \in DOMAIN stats[name] : stats[name][i].p = q})
\* no deletion of an entry of the applied purge mapping is refused
NoDeletionFails == \A e \in Entries(last.used.purge) : ~Denied(e.p)
\* an entry of the applied purge mapping that existed before the run and
\* lies under no other entry of it
TopLevel(q) ==
    /\ Exists(last.predst, q)
    /\ \A f \in Entries(last.used.purge) : f.p = q \/ ~Under(q, f.p)
PurgePost ==
    /\ \A e \in Entries(last.used.purge) : ~Exists(dstfs, e.p)
    /\ stats.purgefails = <<>>
    /\ \A e \in Entries(last.used.purge) :
          OccIn("purges", e.p) = IF TopLevel(e.p) THEN 1 ELSE 0

\* C19: after a run with purge enabled, not a dry run and never told to
\* stop, in which no deletion fails, no path of the applied purge mapping
\* exists in the destination, the purge failure list is empty, each
\* top-level entry is in the purge success list exactly once and the
\* entries under a removed directory are in no list
C19_PurgePostcondition ==
    (RunDone /\ runstngs.purge /\ NoDeletionFails /\ ~last.dry
     /\ last.cancelAt = 0) => PurgePost

\* the same for the runs that returned
C19_PurgePhaseDone ==
    (RunDone /\ runstngs.purge /\ NoDeletionFails /\ ~last.dry
     /\ last.out = "done") => PurgePost

\* no child name twice under a parent, and each count the number of
\* distinct paths
ListsAreSets(d) ==
    /\ \A op \in Ops, q \in AllPaths : Occ(d[op], q) <= 1
    /\ \A op \in Ops : d[CountField(op)] = Cardinality(PathsOf(d[op]))

\* C20 as stated: after Diff.run under any configuration, force-update with
\* a newer source file included, no child name occurs more than once under
\* the same parent in the create, update or purge mapping, and each count is
\* the number of distinct paths
C20_ChildListsAreSets == Diffed => ListsAreSets(OrigDiff)

\* the same without force-update
C20_WithoutForceUpdate == (Diffed /\ ~diffstngs.forceUpdate) => ListsAreSets(OrigDiff)

\* C16 as stated: a watch unit is started for each pair given, and each
\* pair's cycle of diff, trim and run is executed again and again
C16_EveryPairRuns ==
    \A i \in Pairs : []<>(watching = i /\ wpc = "sleep")

\* the first pair is the only one ever watched
C16_FirstPairOnly == watching <= 1

\* the paths seen at the start of the watch, and those of them whose mtime
\* is not above the one taken then
InitialPaths == {it.p : it \in initContents}
SuppressedPaths ==
    {it.p : it \in {i \in initContents :
                       Exists(srcfs, i.p) /\ srcfs[i.p].mt <= i.mt}}
\* the watch has just trimmed; the watch has just run
WatchTrimmed == watching > 0 /\ wpc = "run" /\ last.op = "difftrim"
WatchRan == watching > 0 /\ last.op = "run"
\* the create entries trimmed away are the suppressed paths, every other
\* entry is kept, and update and purge are left as they were
TrimIsExact ==
    /\ PathsOf(TrimDiff.create) = PathsOf(OrigDiff.create) \ SuppressedPaths
    /\ \A q \in PathsOf(TrimDiff.create) :
          Occ(TrimDiff.create, q) = Occ(OrigDiff.create, q)
    /\ TrimDiff.update = OrigDiff.update
    /\ TrimDiff.purge = OrigDiff.purge
\* no entry handed to a copy or delete operation is a suppressed path
NoneSuppressedApplied ==
    \A x \in Range(last.applied) : x.p \notin SuppressedPaths

\* C17 as stated: in every watch cycle the create entries removed from the
\* trimmed change set are exactly the initial paths whose mtime has not
\* advanced, every other create entry stays, and no cycle copies such a
\* path
C17_WatchSuppression ==
    /\ WatchTrimmed => TrimIsExact
    /\ WatchRan => NoneSuppressedApplied

\* C17 as amended: the same, for a watch that runs the trimmed change set
\* (the run setting trimmed at True, its default); a suppressed path is
\* never handed to a copy operation
C17_WatchSuppressionTrimmed ==
    /\ WatchTrimmed => TrimIsExact
    /\ (WatchRan /\ runstngs.trimmed) => NoneSuppressedApplied

\* C17 witness: a cycle of a watch that creates and runs the trimmed set
\* has copied an initial path whose mtime advanced and a file that appeared
\* later, while another initial path, still in the create set of the diff,
\* stayed trimmed away
C17_Witness ==
    /\ WatchRan /\ runstngs.trimmed /\ runstngs.create
    /\ \E q \in SuppressedPaths :
          /\ q \in PathsOf(OrigDiff.create)
          /\ q \notin PathsOf(TrimDiff.create)
          /\ ~Exists(dstfs, q)
    /\ \E x \in Range(last.applied) :
          x.ph = "create" /\ x.p \in InitialPaths /\ Exists(dstfs, x.p)
    /\ \E x \in Range(last.applied) :
          x.ph = "create" /\ x.p \notin InitialPaths /\ Exists(dstfs, x.p)

\* the change set of a run of Diff.run on its own
Alone(r) == DiffRun(r.src, r.dst).diff

\* C21 as stated: two Diff.run on disjoint pairs, interleaved in any order,
\* each complete without an error and each produce the change set they
\* produce alone; the scratch directory is never missing under one because
\* of the other
C21_NoInterference ==
    \A i \in Runs :
        /\ drun[i].pc # "raised"
        /\ drun[i].pc = "done" => drun[i].out = Alone(drun[i])

\* a run whose neighbours have not started ends without an error, and a
\* run that ends has the change set it has alone
C21_OneAtATime ==
    \A i \in Runs :
        /\ (\A j \in Runs \ {i} : drun[j].pc = "idle") => drun[i].pc # "raised"
        /\ drun[i].pc = "done" => drun[i].out = Alone(drun[i])
====
